---- MODULE Spec2Model ----
(***************************************************************************)
(* Ordering of cards inside lists (backend/routers/cards.py) and real-time *)
(* fan-out of board events (backend/websocket.py).                         *)
(*                                                                         *)
(* Three specifications share the module:                                  *)
(*   Spec      the cards router, one request at a time                     *)
(*   SpecMove  two move_card requests running in two database sessions     *)
(*   SpecWS    the websocket handlers on one cooperative event loop        *)
(***************************************************************************)
EXTENDS Integers, FiniteSets, Sequences, TLC

\* ------------------------------------------------------------------ bounds
MaxCards == 5          \* rows the cards table ever receives (ids 1..MaxCards)
MaxPosArg == 3         \* largest position a request carries
NegArg == 1            \* most negative position a request carries is -NegArg

CardIds == 1..MaxCards
\* the lists that exist, and the id of one that does not
ListIds == {"L", "M"}
NoSuchList == "none"
PosArgs == (0 - NegArg)..MaxPosArg
\* Optional[int]: <<>> is None, <<p>> is the integer p
None == <<>>
OptPosArgs == {None} \cup {<<p>> : p \in PosArgs}

VARIABLES
    db,        \* cards table, committed rows: card id -> [list_id, position]
    next_id,   \* next autoincrement id of the cards table
    last,      \* the branch the last request took
    db0,       \* SpecMove: the table before the two requests
    sess,      \* SpecMove: the session of each request
    wlock,     \* SpecMove: the session whose writes are not yet committed
    work,      \* SpecMove: the table as the writing transaction sees it
    active_connections,    \* SpecWS: board_id -> set of websockets (the rooms)
    connection_board_map,  \* SpecWS: websocket -> board_id
    h,         \* SpecWS: websocket_endpoint of each websocket: where it awaits
    bc,        \* SpecWS: the broadcast_to_board call of each handler
    alive,     \* SpecWS: whether the transport of each websocket still works
    frames_left \* SpecWS: inbound frames the clients may still send

cardVars == <<db, next_id, last>>
moveVars == <<db0, sess, wlock, work>>
wsVars == <<active_connections, connection_board_map, h, bc, alive, frames_left>>

\* ------------------------------------------------------- the cards table
Row(l, p) == [list_id |-> l, position |-> p]

\* db.query(Card).filter(Card.list_id == l)
CardsIn(d, l) == {c \in DOMAIN d : d[c].list_id = l}

\* db.query(Card).filter(Card.list_id == l).count()
CountIn(d, l) == Cardinality(CardsIn(d, l))

\* query.update({"position": Card.position + delta}) over the rows in S
BulkShift(d, S, delta) ==
    [c \in DOMAIN d |-> IF c \in S THEN [d[c] EXCEPT !.position = @ + delta]
                                   ELSE d[c]]

\* the positions of list l are exactly 0..N-1, N its number of cards
Dense(d, l) ==
    {d[c].position : c \in CardsIn(d, l)} = 0..(CountIn(d, l) - 1)

DenseAll(d) == \A l \in ListIds : Dense(d, l)

\* ------------------------------------------------ routers/cards.py, moves
\* faulty variant: the bulk UPDATE is not restricted to the card's list
ReorderRange_any_list(d, card, new_position) ==
    IF new_position < card.position
    THEN <<{c \in DOMAIN d :
               /\ d[c] # card
               /\ d[c].position >= new_position
               /\ d[c].position < card.position}, 1>>
    ELSE <<{c \in DOMAIN d :
               /\ d[c] # card
               /\ d[c].position > card.position
               /\ d[c].position <= new_position}, -1>>

\* faulty variant: a move to a later position leaves the row at the target
ReorderRange_open(d, card, new_position) ==
    IF new_position < card.position
    THEN <<{c \in CardsIn(d, card.list_id) :
               /\ d[c].position >= new_position
               /\ d[c].position < card.position}, 1>>
    ELSE <<{c \in CardsIn(d, card.list_id) :
               /\ d[c].position > card.position
               /\ d[c].position < new_position}, -1>>

\* faulty variant: the lower end of an upward move is excluded
ReorderRange_strict(d, card, new_position) ==
    IF new_position < card.position
    THEN <<{c \in CardsIn(d, card.list_id) :
               /\ d[c].position > new_position
               /\ d[c].position < card.position}, 1>>
    ELSE <<{c \in CardsIn(d, card.list_id) :
               /\ d[c].position > card.position
               /\ d[c].position <= new_position}, -1>>

\* The rows a same-list reorder shifts, and by how much: <<rows, delta>>.
ReorderRange(d, card, new_position) ==
    IF new_position < card.position
    THEN <<{c \in CardsIn(d, card.list_id) :
               /\ d[c].position >= new_position
               /\ d[c].position < card.position}, 1>>
    ELSE <<{c \in CardsIn(d, card.list_id) :
               /\ d[c].position > card.position
               /\ d[c].position <= new_position}, -1>>

\* faulty variant: no early return, and the upward shift has no upper end
_reorder_unguarded(d, id, card, new_position) ==
    LET rows == IF new_position <= card.position
                THEN {c \in CardsIn(d, card.list_id) : d[c].position >= new_position}
                ELSE ReorderRange(d, card, new_position)[1]
        delta == IF new_position <= card.position THEN 1 ELSE -1
    IN  [BulkShift(d, rows, delta) EXCEPT ![id].position = new_position]

\* _reorder_cards_same_list(db, card, new_position): id is the card's row,
\* card the attributes the session loaded for it.
_reorder_cards_same_list(d, id, card, new_position) ==
    IF new_position = card.position
    THEN d
    ELSE LET r == ReorderRange(d, card, new_position)
         IN  [BulkShift(d, r[1], r[2]) EXCEPT ![id].position = new_position]

\* rows of the source list after the card: they close the gap
SourceTail(d, card) ==
    {c \in CardsIn(d, card.list_id) : d[c].position > card.position}

\* the index the card is inserted at: None or an index past the end appends
DestIndex(d, target_list_id, new_position) ==
    LET max_position == CountIn(d, target_list_id)
    IN  IF new_position = None THEN max_position
        ELSE IF new_position[1] > max_position THEN max_position
        ELSE new_position[1]

\* faulty variant: the row at the insertion index stays where it is
DestTail_strict(d, target_list_id, index) ==
    {c \in CardsIn(d, target_list_id) : d[c].position > index}

\* rows of the destination list that make room
DestTail(d, target_list_id, index) ==
    {c \in CardsIn(d, target_list_id) : d[c].position >= index}

\* _move_card_to_new_list(db, card, target_list_id, new_position)
_move_card_to_new_list(d, id, card, target_list_id, new_position) ==
    LET d1 == BulkShift(d, SourceTail(d, card), -1)
        index == DestIndex(d1, target_list_id, new_position)
        d2 == BulkShift(d1, DestTail(d1, target_list_id, index), 1)
        \* the flush writes the attributes that differ from the loaded ones
        position == IF index = card.position THEN d2[id].position ELSE index
    IN  [d2 EXCEPT ![id] = Row(target_list_id, position)]

\* ----------------------------------------------- routers/cards.py, requests
\* Requests are followed up to the first one that leaves the positions of a
\* list not dense; the exploration stops there.
Explored == DenseAll(db)

\* faulty variant: the new card is put at the head of the list
create_card_front(list_id) ==
    /\ next_id <= MaxCards
    /\ IF list_id \in ListIds
       THEN /\ db' = [c \in DOMAIN db \cup {next_id} |->
                        IF c = next_id THEN Row(list_id, 0) ELSE db[c]]
            /\ next_id' = next_id + 1
            /\ last' = "create_card"
       ELSE /\ UNCHANGED <<db, next_id>>
            /\ last' = "create_card_404"
    /\ UNCHANGED <<moveVars, wsVars>>

\* POST /cards/: append at the end of the list
create_card(list_id) ==
    /\ next_id <= MaxCards
    /\ IF list_id \in ListIds
       THEN /\ db' = [c \in DOMAIN db \cup {next_id} |->
                        IF c = next_id THEN Row(list_id, CountIn(db, list_id))
                                       ELSE db[c]]
            /\ next_id' = next_id + 1
            /\ last' = "create_card"
       ELSE /\ UNCHANGED <<db, next_id>>
            /\ last' = "create_card_404"
    /\ UNCHANGED <<moveVars, wsVars>>

\* DELETE /cards/{card_id}: the row is deleted, nothing else is written
delete_card(card_id) ==
    /\ IF card_id \in DOMAIN db
       THEN /\ db' = [c \in DOMAIN db \ {card_id} |-> db[c]]
            /\ last' = "delete_card"
       ELSE /\ UNCHANGED db
            /\ last' = "delete_card_404"
    /\ UNCHANGED <<next_id, moveVars, wsVars>>

\* move_card, lines 216-222: the writes of one move on table d, for a card
\* whose attributes the session loaded as card
MoveWrites(d, card_id, card, target_list_id, position) ==
    IF card.list_id = target_list_id
    THEN _reorder_cards_same_list(d, card_id, card, position[1])
    ELSE _move_card_to_new_list(d, card_id, card, target_list_id, position)

\* faulty variant: the destination list is looked up after the writes
move_card_late_check(card_id, target_list_id, position) ==
    /\ IF card_id \notin DOMAIN db
       THEN /\ UNCHANGED db
            /\ last' = "move_card_404"
       ELSE /\ db[card_id].list_id = target_list_id => position # None
            /\ db' = MoveWrites(db, card_id, db[card_id], target_list_id, position)
            /\ last' = IF target_list_id \notin ListIds THEN "move_card_404"
                       ELSE IF db[card_id].list_id # target_list_id THEN "move"
                       ELSE IF position[1] = db[card_id].position
                       THEN "reorder_noop" ELSE "reorder"
    /\ UNCHANGED <<next_id, moveVars, wsVars>>

\* PUT /cards/{card_id}/move. The handler reads the destination as
\* move_data.target_list_id and the index as move_data.position (lines 206,
\* 217-222) and passes them to the two helpers; the action takes them as the
\* request's inputs. (schemas.CardMove declares the fields list_id and
\* position, so with that schema the read at line 206 fails before any write;
\* the helpers' arithmetic, which the claims are about, is modelled as the
\* handler calls it.)
move_card(card_id, target_list_id, position) ==
    /\ IF card_id \notin DOMAIN db \/ target_list_id \notin ListIds
       THEN /\ UNCHANGED db
            /\ last' = "move_card_404"
       ELSE /\ db[card_id].list_id = target_list_id => position # None
            /\ db' = MoveWrites(db, card_id, db[card_id], target_list_id, position)
            /\ last' = IF db[card_id].list_id # target_list_id THEN "move"
                       ELSE IF position[1] = db[card_id].position
                       THEN "reorder_noop" ELSE "reorder"
    /\ UNCHANGED <<next_id, moveVars, wsVars>>

CardInit ==
    /\ db = <<>>
    /\ next_id = 1
    /\ last = "none"

CardNext ==
    /\ Explored
    /\ \/ \E l \in ListIds \cup {NoSuchList} : create_card(l)
       \/ \E c \in CardIds : delete_card(c)
       \/ \E c \in CardIds, l \in ListIds \cup {NoSuchList}, p \in OptPosArgs :
             move_card(c, l, p)

\* ------------------------------------- two move_card requests, two sessions
\* Each request runs in its own session and transaction (database.py get_db).
\* A session reads committed rows; its writes stay in its transaction until
\* commit, and a second writer waits for the first to commit.
MoveCards == 3         \* rows of the table the two requests work on
Procs == {1, 2}

Idle == [pc |-> "start", card_id |-> 0, target |-> "none", position |-> None,
         card |-> Row("none", 0)]

MoveIdle ==
    /\ db0 = <<>>
    /\ sess = [p \in Procs |-> Idle]
    /\ wlock = 0
    /\ work = <<>>

\* the tables with MoveCards cards whose lists are dense
DenseTables ==
    {d \in [1..MoveCards -> [list_id : ListIds, position : 0..(MoveCards - 1)]] :
        DenseAll(d)}

\* lines 193-214: the request loads the card and checks the target list
m_read(p) ==
    /\ sess[p].pc = "start"
    /\ \E c \in DOMAIN db, l \in ListIds, pos \in 0..(MoveCards - 1) :
          sess' = [sess EXCEPT ![p] = [pc |-> "write", card_id |-> c, target |-> l,
                                       position |-> <<pos>>, card |-> db[c]]]
    /\ UNCHANGED <<db, db0, wlock, work, next_id, last, wsVars>>

\* lines 216-222: the bulk shifts and the assignment of the card's attributes
m_write(p) ==
    /\ sess[p].pc = "write"
    /\ wlock = 0
    /\ wlock' = p
    /\ work' = MoveWrites(db, sess[p].card_id, sess[p].card, sess[p].target,
                          sess[p].position)
    /\ sess' = [sess EXCEPT ![p].pc = "commit"]
    /\ UNCHANGED <<db, db0, next_id, last, wsVars>>

\* line 224: db.commit()
m_commit(p) ==
    /\ sess[p].pc = "commit"
    /\ wlock = p
    /\ db' = work
    /\ wlock' = 0
    /\ work' = <<>>
    /\ sess' = [sess EXCEPT ![p].pc = "done"]
    /\ UNCHANGED <<db0, next_id, last, wsVars>>

MoveInit ==
    /\ db \in DenseTables
    /\ db0 = db
    /\ next_id = MoveCards + 1
    /\ last = "none"
    /\ sess = [p \in Procs |-> Idle]
    /\ wlock = 0
    /\ work = <<>>

MoveNext ==
    \/ \E p \in Procs : m_read(p)
    \/ \E p \in Procs : m_write(p)
    \/ \E p \in Procs : m_commit(p)

\* the table after request p alone, served on table d
Alone(d, p) ==
    MoveWrites(d, sess[p].card_id, d[sess[p].card_id], sess[p].target,
               sess[p].position)

\* the tables the two serial orders give
SerialOutcomes == {Alone(Alone(db0, 1), 2), Alone(Alone(db0, 2), 1)}

\* ------------------------- two same-list reorders, statement by statement
\* Each request loads its card, runs the bulk UPDATE of
\* _reorder_cards_same_list, and commits; the commit flushes the card's own
\* position. The rows a transaction has updated stay locked until it
\* commits: an UPDATE of another transaction that matches one of them waits.
\* Both transactions may hold updated rows at the same time.
ReorderCards == 4      \* rows of the table: the first half in L, the rest in M

ReorderTables ==
    {d \in [1..ReorderCards -> [list_id : ListIds, position : 0..(ReorderCards - 1)]] :
        /\ \A c \in 1..ReorderCards :
              d[c].list_id = IF 2 * c <= ReorderCards THEN "L" ELSE "M"
        /\ DenseAll(d)}

Other(p) == CHOOSE q \in Procs : q # p

\* the rows transaction q has updated and not committed
Writes(q) == IF sess[q].pc = "commit" THEN sess[q].writes ELSE <<>>

\* move_card lines 193-214, for a move within the card's list
r_read(p) ==
    /\ sess[p].pc = "start"
    /\ \E c \in DOMAIN db, pos \in 0..(ReorderCards \div 2) :
          sess' = [sess EXCEPT ![p] =
                      [pc |-> "shift", card_id |-> c, target |-> db[c].list_id,
                       position |-> <<pos>>, card |-> db[c], writes |-> <<>>,
                       seen |-> ""]]
    /\ UNCHANGED <<db, db0, wlock, work, next_id, last, wsVars>>

\* _reorder_cards_same_list lines 231-249: the early return, or the bulk
\* UPDATE over the committed rows; seen is where the other request is
r_shift(p) ==
    /\ sess[p].pc = "shift"
    /\ LET card == sess[p].card
           new_position == sess[p].position[1]
           r == ReorderRange(db, card, new_position)
           rows == IF new_position = card.position THEN {} ELSE r[1]
       IN  /\ rows \cap DOMAIN Writes(Other(p)) = {}
           /\ sess' = [sess EXCEPT
                         ![p].pc = "commit",
                         ![p].writes = [c \in rows |->
                                           [db[c] EXCEPT !.position = @ + r[2]]],
                         ![p].seen = sess[Other(p)].pc]
    /\ UNCHANGED <<db, db0, wlock, work, next_id, last, wsVars>>

\* line 251 and move_card line 224: db.commit() flushes the card's position,
\* if it differs from the one loaded, and commits
r_commit(p) ==
    /\ sess[p].pc = "commit"
    /\ LET id == sess[p].card_id
           new_position == sess[p].position[1]
           changed == new_position # sess[p].card.position
       IN  /\ changed => id \notin DOMAIN Writes(Other(p))
           /\ db' = [c \in DOMAIN db |->
                        IF c = id /\ changed
                        THEN [db[c] EXCEPT !.position = new_position]
                        ELSE IF c \in DOMAIN sess[p].writes THEN sess[p].writes[c]
                        ELSE db[c]]
    /\ sess' = [sess EXCEPT ![p].pc = "done"]
    /\ UNCHANGED <<db0, wlock, work, next_id, last, wsVars>>

ReorderInit ==
    /\ db \in ReorderTables
    /\ db0 = db
    /\ next_id = ReorderCards + 1
    /\ last = "none"
    /\ sess = [p \in Procs |-> Idle]
    /\ wlock = 0
    /\ work = <<>>

ReorderNext ==
    \/ \E p \in Procs : r_read(p)
    \/ \E p \in Procs : r_shift(p)
    \/ \E p \in Procs : r_commit(p)

\* ------------------------------------------------------- websocket.py
MaxFrames == 1         \* inbound frames the clients send, all connections together

WebSockets == {"c1", "c2", "c3"}
Boards == {"b1", "b2"}
\* the user_id each connection is opened with
UserOf(w) == CASE w = "c1" -> "u1" [] w = "c2" -> "u2" [] OTHER -> "u3"
Users == {UserOf(w) : w \in WebSockets}

\* the values of ActionType: the enum gives "delete_column" to UPDATE_COLUMN,
\* so DELETE_COLUMN is an alias and "update_column" is no value of it
ActionType ==
    {"create_card", "update_card", "delete_card", "move_card",
     "create_column", "delete_column", "delete_column", "cursor_move"}

\* the action strings the clients of the model send
ActionStrings == {"move_card", "update_column", "archive_board"}

\* inbound text frames: json is how json.loads fares ("invalid": it raises,
\* "not_object": it returns no dict, "object"); fields is whether data,
\* board_id and user_id are present with their types
Frames ==
    [json : {"invalid", "not_object", "object"}, fields : BOOLEAN,
     action : ActionStrings, board_id : Boards, user_id : Users]

\* faulty variant: the declared board_id is not compared with the connection's
Validate_any_board(f, board_id, user_id) ==
    IF f.json = "invalid" THEN "Invalid JSON format"
    ELSE IF f.json = "not_object" THEN "Internal server error"
    ELSE IF ~f.fields \/ f.action \notin ActionType THEN "Validation error"
    ELSE IF f.user_id # user_id THEN "User ID mismatch"
    ELSE "valid"

\* lines 153-183 and 207: what the handler does with a frame
Validate(f, board_id, user_id) ==
    IF f.json = "invalid" THEN "Invalid JSON format"
    ELSE IF f.json = "not_object" THEN "Internal server error"
    ELSE IF ~f.fields \/ f.action \notin ActionType THEN "Validation error"
    ELSE IF f.board_id # board_id THEN "Board ID mismatch"
    ELSE IF f.user_id # user_id THEN "User ID mismatch"
    ELSE "valid"

\* ConnectionManager.connect after accept: <<active_connections, connection_board_map>>
connect(ac, cbm, websocket, board_id) ==
    LET ac1 == IF board_id \in DOMAIN ac THEN ac
               ELSE [x \in DOMAIN ac \cup {board_id} |->
                        IF x = board_id THEN {} ELSE ac[x]]
    IN  <<[ac1 EXCEPT ![board_id] = @ \cup {websocket}],
          [x \in DOMAIN cbm \cup {websocket} |->
              IF x = websocket THEN board_id ELSE cbm[x]]>>

\* faulty variant: the room is kept when its last connection leaves
disconnect_keep_room(ac, cbm, websocket) ==
    LET known == websocket \in DOMAIN cbm
        board_id == IF known THEN cbm[websocket] ELSE ""
        ac1 == IF known /\ board_id \in DOMAIN ac
               THEN [ac EXCEPT ![board_id] = @ \ {websocket}]
               ELSE ac
    IN  <<ac1, [x \in DOMAIN cbm \ {websocket} |-> cbm[x]]>>

\* faulty variant: a websocket without a map entry is looked up in the rooms
disconnect_scan(ac, cbm, websocket) ==
    LET known == websocket \in DOMAIN cbm
        found == {b \in DOMAIN ac : websocket \in ac[b]}
        board_id == IF known THEN cbm[websocket]
                    ELSE IF found # {} THEN CHOOSE b \in found : TRUE ELSE ""
        ac1 == IF board_id \in DOMAIN ac
               THEN LET room == ac[board_id] \ {websocket}
                    IN  IF room = {}
                        THEN [x \in DOMAIN ac \ {board_id} |-> ac[x]]
                        ELSE [ac EXCEPT ![board_id] = room]
               ELSE ac
    IN  <<ac1, [x \in DOMAIN cbm \ {websocket} |-> cbm[x]]>>

\* ConnectionManager.disconnect
disconnect(ac, cbm, websocket) ==
    LET known == websocket \in DOMAIN cbm
        board_id == IF known THEN cbm[websocket] ELSE ""
        ac1 == IF known /\ board_id \in DOMAIN ac
               THEN LET room == ac[board_id] \ {websocket}
                    IN  IF room = {}
                        THEN [x \in DOMAIN ac \ {board_id} |-> ac[x]]
                        ELSE [ac EXCEPT ![board_id] = room]
               ELSE ac
    IN  <<ac1, [x \in DOMAIN cbm \ {websocket} |-> cbm[x]]>>

\* lines 103-104: for client in disconnected_clients: self.disconnect(client)
RECURSIVE disconnect_all(_, _, _)
disconnect_all(ac, cbm, clients) ==
    IF clients = {} THEN <<ac, cbm>>
    ELSE LET client == CHOOSE x \in clients : TRUE
             r == disconnect(ac, cbm, client)
         IN  disconnect_all(r[1], r[2], clients \ {client})

\* ConnectionManager.get_connected_users_count
get_connected_users_count(ac, board_id) ==
    IF board_id \in DOMAIN ac THEN Cardinality(ac[board_id]) ELSE 0

\* ---------------------------------------------- broadcast_to_board, state
NoBroadcast ==
    [status |-> "idle", type |-> "", action |-> "", board |-> "", exclude |-> "",
     snap |-> {}, obj |-> FALSE, target |-> "", sent |-> {}, dead |-> {}]

\* a call at its for statement: the iterator is over the room's own set;
\* snap is the room as the loop found it, and its size the size the iterator
\* compares with
NewBroadcast(ac, type, action, board_id, exclude_client) ==
    [status |-> "running", type |-> type, action |-> action, board |-> board_id,
     exclude |-> exclude_client, snap |-> ac[board_id], obj |-> TRUE,
     target |-> "", sent |-> {}, dead |-> {}]

\* the set object the iterator of call b walks: the room's set, or, once the
\* room was deleted, the emptied set the room had
IterSet(ac, b) == IF b.obj THEN ac[b.board] ELSE {}

\* line 93: the members the loop body skips
Skipped(b) == {b.exclude}

\* the members the iterator has not produced and the loop does not skip
Pending(ac, b) == (IterSet(ac, b) \ (b.sent \cup b.dead)) \ Skipped(b)

\* calls that iterate a room the step deleted keep the emptied set
Detach(bcs, ac1) ==
    [v \in WebSockets |->
        IF bcs[v].status = "running" /\ bcs[v].obj /\ bcs[v].board \notin DOMAIN ac1
        THEN [bcs[v] EXCEPT !.obj = FALSE] ELSE bcs[v]]

\* -------------------------------------------- websocket_endpoint, steps
\* A step runs a handler from the completion of the await it is suspended in
\* to its next await; h[w].pc names the await:
\*   "send_established" 126, "broadcast" 97, "receive" 150,
\*   "send_error" 159/166/173/179, "send_ack" 199, "send_internal" 209.
\* "new": websocket_endpoint was not called yet for the websocket;
\* "crashed": the finally block ran manager.disconnect(websocket) and its
\* `await` of the None that call returns raised TypeError (line 219).
NewHandler == [pc |-> "new", board_id |-> "", error |-> ""]

\* error is the message of the error frame a "send_error" is sending
At(w, pc) == [h EXCEPT ![w].pc = pc, ![w].error = ""]

\* lines 217-219
Cleanup(w, bcs) ==
    LET r == disconnect(active_connections, connection_board_map, w)
    IN  /\ active_connections' = r[1]
        /\ connection_board_map' = r[2]
        /\ h' = At(w, "crashed")
        /\ bc' = Detach(bcs, r[1])
        /\ alive' = [alive EXCEPT ![w] = FALSE]

\* line 97: the call suspends in connection.send_json for member t
Await(w, b, t) ==
    /\ h' = At(w, "broadcast")
    /\ bc' = [bc EXCEPT ![w] = [b EXCEPT !.target = t]]
    /\ UNCHANGED <<active_connections, connection_board_map, alive>>

\* lines 102-104, and the caller's next await: receive_text after the
\* user_joined broadcast, the ack after a board_update
Returned(w, b) ==
    LET r == disconnect_all(active_connections, connection_board_map, b.dead)
        \* the record of the call lasts while the caller awaits its ack
        b1 == IF b.type = "user_joined" THEN NoBroadcast
              ELSE [b EXCEPT !.status = "returned", !.target = ""]
    IN  /\ active_connections' = r[1]
        /\ connection_board_map' = r[2]
        /\ bc' = Detach([bc EXCEPT ![w] = b1], r[1])
        /\ h' = At(w, IF b.type = "user_joined" THEN "receive" ELSE "send_ack")
        /\ UNCHANGED alive

\* "Set changed size during iteration" leaves broadcast_to_board: line 214
\* catches it for the user_joined call, line 207 for a board_update
Raised(w, b) ==
    LET b1 == [b EXCEPT !.status = "raised", !.target = ""]
    IN  IF b.type = "user_joined"
        THEN Cleanup(w, [bc EXCEPT ![w] = NoBroadcast])
        ELSE /\ h' = At(w, "send_internal")
             /\ bc' = [bc EXCEPT ![w] = b1]
             /\ UNCHANGED <<active_connections, connection_board_map, alive>>

\* line 92, one next() of the set iterator and what follows it: it raises
\* when the set's size is not the size the loop started with; otherwise it
\* gives some member not yet produced, in the order of the hash table; a set
\* changed at equal size may also end the loop with members left over
Advance(w, b) ==
    IF Cardinality(IterSet(active_connections, b)) # Cardinality(b.snap)
    THEN Raised(w, b)
    ELSE \/ \E t \in Pending(active_connections, b) : Await(w, b, t)
         \/ /\ \/ Pending(active_connections, b) = {}
               \/ IterSet(active_connections, b) # b.snap
            /\ Returned(w, b)

\* broadcast_to_board(message, board_id, exclude_client) up to its first await
broadcast_to_board(w, type, action, board_id, exclude_client) ==
    IF board_id \notin DOMAIN active_connections
    THEN Returned(w, [NoBroadcast EXCEPT !.type = type, !.action = action,
                                         !.board = board_id])
    ELSE Advance(w, NewBroadcast(active_connections, type, action, board_id,
                                 exclude_client))

\* the boards a connection may be opened on: up to the symmetry of boards
\* and of connections these are all the ways three connections share rooms
BoardsOf(w) == IF w = "c3" THEN Boards ELSE {"b1"}

\* the client goes away or the transport fails
ws_drop(w) ==
    /\ h[w].pc \notin {"new", "crashed"}
    /\ alive[w]
    /\ alive' = [alive EXCEPT ![w] = FALSE]
    /\ UNCHANGED <<active_connections, connection_board_map, h, bc, frames_left>>
    /\ UNCHANGED <<cardVars, moveVars>>

\* faulty variant: a websocket whose handler is over is registered again
ws_connect_again(w, board_id) ==
    /\ h[w].pc \in {"new", "crashed"}
    /\ LET r == connect(active_connections, connection_board_map, w, board_id)
       IN  /\ active_connections' = r[1]
           /\ connection_board_map' = r[2]
    /\ h' = [h EXCEPT ![w] = [pc |-> "send_established", board_id |-> board_id,
                              error |-> ""]]
    /\ UNCHANGED <<bc, alive, frames_left>>
    /\ UNCHANGED <<cardVars, moveVars>>

\* lines 122-126 and 50-56: websocket_endpoint(websocket, board_id, user_id)
\* accepts the connection and registers it
ws_connect(w, board_id) ==
    /\ h[w].pc = "new"
    /\ LET r == connect(active_connections, connection_board_map, w, board_id)
       IN  /\ active_connections' = r[1]
           /\ connection_board_map' = r[2]
    /\ h' = [h EXCEPT ![w] = [pc |-> "send_established", board_id |-> board_id,
                              error |-> ""]]
    /\ UNCHANGED <<bc, alive, frames_left>>
    /\ UNCHANGED <<cardVars, moveVars>>

\* lines 126-145
ws_established(w) ==
    /\ h[w].pc = "send_established"
    /\ IF alive[w]
       THEN broadcast_to_board(w, "user_joined", "", h[w].board_id, w)
       ELSE Cleanup(w, bc)
    /\ UNCHANGED frames_left
    /\ UNCHANGED <<cardVars, moveVars>>

\* lines 96-100, then the loop goes on
ws_broadcast_send(w) ==
    /\ h[w].pc = "broadcast"
    /\ LET t == bc[w].target
       IN  Advance(w, IF alive[t] THEN [bc[w] EXCEPT !.sent = @ \cup {t}]
                                  ELSE [bc[w] EXCEPT !.dead = @ \cup {t}])
    /\ UNCHANGED frames_left
    /\ UNCHANGED <<cardVars, moveVars>>

\* lines 150-196: a text frame arrives
ws_receive(w, f) ==
    /\ h[w].pc = "receive"
    /\ alive[w]
    /\ frames_left > 0
    /\ frames_left' = frames_left - 1
    /\ LET v == Validate(f, h[w].board_id, UserOf(w))
       IN  IF v = "valid"
           THEN broadcast_to_board(w, "board_update", f.action, h[w].board_id, w)
           ELSE /\ h' = IF v = "Internal server error"
                        THEN At(w, "send_internal")
                        ELSE [h EXCEPT ![w].pc = "send_error", ![w].error = v]
                /\ bc' = [bc EXCEPT ![w] = NoBroadcast]
                /\ UNCHANGED <<active_connections, connection_board_map, alive>>
    /\ UNCHANGED <<cardVars, moveVars>>

\* A send or a receive on a dead transport raises WebSocketDisconnect
\* (line 204: break, then finally) or another exception (line 207).
Failed(w) ==
    \/ Cleanup(w, [bc EXCEPT ![w] = NoBroadcast])
    \/ /\ h' = At(w, "send_internal")
       /\ bc' = [bc EXCEPT ![w] = NoBroadcast]
       /\ UNCHANGED <<active_connections, connection_board_map, alive>>

Resumed(w) ==
    /\ h' = At(w, "receive")
    /\ bc' = [bc EXCEPT ![w] = NoBroadcast]
    /\ UNCHANGED <<active_connections, connection_board_map, alive>>

\* line 150 on a dead transport
ws_receive_fails(w) ==
    /\ h[w].pc = "receive"
    /\ ~alive[w]
    /\ Failed(w)
    /\ UNCHANGED frames_left
    /\ UNCHANGED <<cardVars, moveVars>>

\* faulty variant: the handler closes the connection after an error frame
ws_error_sent_close(w) ==
    /\ h[w].pc = "send_error"
    /\ Cleanup(w, [bc EXCEPT ![w] = NoBroadcast])
    /\ UNCHANGED frames_left
    /\ UNCHANGED <<cardVars, moveVars>>

\* lines 159-183: the error frame of a rejected frame was sent, or was not
ws_error_sent(w) ==
    /\ h[w].pc = "send_error"
    /\ IF alive[w] THEN Resumed(w) ELSE Failed(w)
    /\ UNCHANGED frames_left
    /\ UNCHANGED <<cardVars, moveVars>>

\* lines 199-202
ws_ack_sent(w) ==
    /\ h[w].pc = "send_ack"
    /\ IF alive[w] THEN Resumed(w) ELSE Failed(w)
    /\ UNCHANGED frames_left
    /\ UNCHANGED <<cardVars, moveVars>>

\* lines 207-212: a failure of this send leaves the loop through line 214
ws_internal_sent(w) ==
    /\ h[w].pc = "send_internal"
    /\ IF alive[w] THEN Resumed(w) ELSE Cleanup(w, [bc EXCEPT ![w] = NoBroadcast])
    /\ UNCHANGED frames_left
    /\ UNCHANGED <<cardVars, moveVars>>

WsIdle ==
    /\ active_connections = <<>>
    /\ connection_board_map = <<>>
    /\ h = [w \in WebSockets |-> NewHandler]
    /\ bc = [w \in WebSockets |-> NoBroadcast]
    /\ alive = [w \in WebSockets |-> TRUE]
    /\ frames_left = MaxFrames

WsNext ==
    \/ \E w \in WebSockets : \E b \in BoardsOf(w) : ws_connect(w, b)
    \/ \E w \in WebSockets : ws_drop(w)
    \/ \E w \in WebSockets : ws_established(w)
    \/ \E w \in WebSockets : ws_broadcast_send(w)
    \/ \E w \in WebSockets, f \in Frames : ws_receive(w, f)
    \/ \E w \in WebSockets : ws_receive_fails(w)
    \/ \E w \in WebSockets : ws_error_sent(w)
    \/ \E w \in WebSockets : ws_ack_sent(w)
    \/ \E w \in WebSockets : ws_internal_sent(w)

vars == <<db, next_id, last, db0, sess, wlock, work, wsVars>>

Init == CardInit /\ MoveIdle /\ WsIdle
Next == CardNext
Spec == Init /\ [][Next]_vars

MoveStart == MoveInit /\ WsIdle
SpecMove == MoveStart /\ [][MoveNext]_vars

ReorderStart == ReorderInit /\ WsIdle
SpecReorder == ReorderStart /\ [][ReorderNext]_vars

WsInit == CardInit /\ MoveIdle /\ WsIdle
SpecWS == WsInit /\ [][WsNext]_vars

\* ------------------------------------------------- routers/lists.py
\* The lists of one board; db holds their rows in this section.
MaxLists == 4
BoardListIds == 1..MaxLists

\* ListCreate.position: the client's value, 0 when it gives none
ListCreatePositions == PosArgs
\* ListUpdate.position with exclude_unset: None when the client gives none
ListUpdatePositions == OptPosArgs

\* POST /board/{board_id}/lists
create_list(position) ==
    /\ next_id <= MaxLists
    /\ db' = [l \in DOMAIN db \cup {next_id} |->
                 IF l = next_id THEN [position |-> position] ELSE db[l]]
    /\ next_id' = next_id + 1
    /\ last' = "create_list"
    /\ UNCHANGED <<moveVars, wsVars>>

\* PUT /{list_id}
update_list(list_id, position) ==
    /\ IF list_id \notin DOMAIN db
       THEN /\ UNCHANGED db
            /\ last' = "update_list_404"
       ELSE /\ db' = IF position = None THEN db
                     ELSE [db EXCEPT ![list_id].position = position[1]]
            /\ last' = "update_list"
    /\ UNCHANGED <<next_id, moveVars, wsVars>>

\* DELETE /{list_id}
delete_list(list_id) ==
    /\ IF list_id \notin DOMAIN db
       THEN /\ UNCHANGED db
            /\ last' = "delete_list_404"
       ELSE /\ db' = [l \in DOMAIN db \ {list_id} |-> db[l]]
            /\ last' = "delete_list"
    /\ UNCHANGED <<next_id, moveVars, wsVars>>

ListsNext ==
    \/ \E p \in ListCreatePositions : create_list(p)
    \/ \E l \in BoardListIds, p \in ListUpdatePositions : update_list(l, p)
    \/ \E l \in BoardListIds : delete_list(l)

ListsInit == CardInit /\ MoveIdle /\ WsIdle
SpecLists == ListsInit /\ [][ListsNext]_vars

\* ------------------------------------------- services/card_service.py
\* The cards of CardService have a column_id, a position and the is_active
\* flag of the soft delete; db holds them in this section.
ColumnIds == {"P", "Q"}
NoSuchColumn == "none"

SvcRow(column_id, position, is_active) ==
    [column_id |-> column_id, position |-> position, is_active |-> is_active]

\* filter(Card.column_id == column_id, Card.is_active == True)
ActiveIn(d, column_id) ==
    {c \in DOMAIN d : d[c].column_id = column_id /\ d[c].is_active}

\* func.max(Card.position) over rows: NULL (None) when there is no row
MaxPosition(d, rows) ==
    IF rows = {} THEN None
    ELSE <<CHOOSE p \in {d[c].position : c \in rows} :
              \A c \in rows : d[c].position <= p>>

\* CardService._get_next_position: (max_position or 0) + 1
_get_next_position(d, column_id) ==
    LET max_position == MaxPosition(d, ActiveIn(d, column_id))
    IN  (IF max_position = None \/ max_position[1] = 0 THEN 0
         ELSE max_position[1]) + 1

\* CardService.create_card
svc_create_card(column_id) ==
    /\ next_id <= MaxCards
    /\ IF column_id \in ColumnIds
       THEN /\ db' = [c \in DOMAIN db \cup {next_id} |->
                        IF c = next_id
                        THEN SvcRow(column_id, _get_next_position(db, column_id), TRUE)
                        ELSE db[c]]
            /\ next_id' = next_id + 1
            /\ last' = "svc_create_card"
       ELSE /\ UNCHANGED <<db, next_id>>
            /\ last' = "svc_column_not_found"
    /\ UNCHANGED <<moveVars, wsVars>>

\* CardService.delete_card: the soft delete
svc_delete_card(card_id) ==
    /\ IF card_id \in DOMAIN db /\ db[card_id].is_active
       THEN /\ db' = [db EXCEPT ![card_id].is_active = FALSE]
            /\ last' = "svc_delete_card"
       ELSE /\ UNCHANGED db
            /\ last' = "svc_card_not_found"
    /\ UNCHANGED <<next_id, moveVars, wsVars>>

SvcNext ==
    \/ \E col \in ColumnIds \cup {NoSuchColumn} : svc_create_card(col)
    \/ \E c \in CardIds : svc_delete_card(c)

SvcInit == CardInit /\ MoveIdle /\ WsIdle
SpecSvc == SvcInit /\ [][SvcNext]_vars

\* ------------------------------- ConnectionManager, its methods called in any order
\* The calls run one at a time, each to its end: any websocket may be
\* connected again, for the same or another board, and disconnected whether
\* it is registered or not.
mgr_connect(websocket, board_id) ==
    /\ LET r == connect(active_connections, connection_board_map,
                        websocket, board_id)
       IN  /\ active_connections' = r[1]
           /\ connection_board_map' = r[2]
    /\ last' = "connect"
    /\ UNCHANGED <<db, next_id, moveVars, h, bc, alive, frames_left>>

mgr_disconnect(websocket) ==
    /\ LET r == disconnect(active_connections, connection_board_map, websocket)
       IN  /\ active_connections' = r[1]
           /\ connection_board_map' = r[2]
           /\ last' = IF websocket \notin DOMAIN connection_board_map
                      THEN "disconnect_unknown"
                      ELSE IF DOMAIN r[1] # DOMAIN active_connections
                      THEN "disconnect_last" ELSE "disconnect"
    /\ UNCHANGED <<db, next_id, moveVars, h, bc, alive, frames_left>>

\* broadcast_to_board(message, board_id, exclude_client): the send_json of
\* the connections in failing raises; "" is no exclude_client
mgr_broadcast(board_id, exclude_client, failing) ==
    /\ IF board_id \notin DOMAIN active_connections
       THEN UNCHANGED <<active_connections, connection_board_map>>
       ELSE LET disconnected_clients ==
                    (active_connections[board_id] \ {exclude_client}) \cap failing
                r == disconnect_all(active_connections, connection_board_map,
                                    disconnected_clients)
            IN  /\ active_connections' = r[1]
                /\ connection_board_map' = r[2]
    /\ last' = "broadcast"
    /\ UNCHANGED <<db, next_id, moveVars, h, bc, alive, frames_left>>

\* get_connected_users_count(board_id): a read of active_connections
mgr_count(board_id) ==
    /\ get_connected_users_count(active_connections, board_id) \in Nat
    /\ last' = "count"
    /\ UNCHANGED <<db, next_id, moveVars, wsVars>>

MgrNext ==
    \/ \E w \in WebSockets, b \in Boards : mgr_connect(w, b)
    \/ \E w \in WebSockets : mgr_disconnect(w)
    \/ \E b \in Boards : mgr_count(b)
    \/ \E b \in Boards, x \in WebSockets \cup {""}, F \in SUBSET WebSockets :
          mgr_broadcast(b, x, F)

MgrInit == CardInit /\ MoveIdle /\ WsIdle
SpecMgr == MgrInit /\ [][MgrNext]_vars

\* --------------------------------- the cards router while viewers are connected
\* models.List.board_id: the lists of the model are lists of one board
BoardOfList(l) == "b1"

\* two viewers of that board are connected, their handlers wait in
\* receive_text (line 150), and no frame arrives while the requests run
Viewers == {"c1", "c2"}
ViewersConnected ==
    /\ active_connections = ("b1" :> Viewers)
    /\ connection_board_map = [w \in Viewers |-> "b1"]
    /\ h = [w \in WebSockets |->
              IF w \in Viewers
              THEN [pc |-> "receive", board_id |-> "b1", error |-> ""]
              ELSE NewHandler]
    /\ bc = [w \in WebSockets |-> NoBroadcast]
    /\ alive = [w \in WebSockets |-> TRUE]
    /\ frames_left = 0

RestInit == CardInit /\ MoveIdle /\ ViewersConnected
RestNext == CardNext
SpecRest == RestInit /\ [][RestNext]_vars

\* ------------------------------------------------------------- scenarios
\* cards A, B, C, X, Y are the rows 1..5, in the order they were created
Table(rows) == [c \in 1..Len(rows) |-> rows[c]]

\* positions of the cards of list l, as a function of the card id
ListOf(d, l) == [c \in CardsIn(d, l) |-> d[c].position]

\* C1: after any sequence of create_card, delete_card and move_card requests
\* the positions of every list are exactly 0..N-1, without duplicates.
C1_Dense == DenseAll(db)

\* C5: with L = [A@0, B@1, C@2] and M = [X@0, Y@1], moving C to M at index 0
\* gives L = [A@0, B@1] and M = [C@0, X@1, Y@2]; in every cross-list move
\* the later siblings of the source list move down by one, the siblings of
\* the destination at or after the insertion index move up by one, and no
\* other row changes.
C5_CrossListMove ==
    [][/\ (/\ db = Table(<<Row("L", 0), Row("L", 1), Row("L", 2),
                           Row("M", 0), Row("M", 1)>>)
           /\ move_card(3, "M", <<0>>))
          => db' = Table(<<Row("L", 0), Row("L", 1), Row("M", 0),
                           Row("M", 1), Row("M", 2)>>)
       /\ \A c \in DOMAIN db, l \in ListIds, p \in OptPosArgs :
            (last' = "move" /\ l # db[c].list_id /\ move_card(c, l, p)) =>
               /\ DOMAIN db' = DOMAIN db
               /\ db'[c].list_id = l
               /\ \A s \in DOMAIN db \ {c} :
                    /\ db'[s].list_id = db[s].list_id
                    /\ db'[s].position = db[s].position
                         + (IF /\ db[s].list_id = db[c].list_id
                               /\ db[s].position > db[c].position
                            THEN -1 ELSE 0)
                         + (IF /\ db[s].list_id = l
                               /\ db[s].position >= db'[c].position
                            THEN 1 ELSE 0)]_vars

W5_CrossListMove ==
    /\ last = "move"
    /\ db = Table(<<Row("L", 0), Row("L", 1), Row("M", 0), Row("M", 1), Row("M", 2)>>)

\* C6: with L = [A@0, B@1, C@2], moving C to position 0 of L gives
\* L = [C@0, A@1, B@2].
C6_SameListReorder ==
    [][(/\ ListOf(db, "L") = (1 :> 0 @@ 2 :> 1 @@ 3 :> 2)
        /\ move_card(3, "L", <<0>>))
       => ListOf(db', "L") = (3 :> 0 @@ 1 :> 1 @@ 2 :> 2)]_vars

W6_SameListReorder ==
    /\ last = "reorder"
    /\ ListOf(db, "L") = (3 :> 0 @@ 1 :> 1 @@ 2 :> 2)

\* C7: a reorder whose target is the card's current position changes the
\* position of no card of any list.
C7_NoopReorder ==
    [][\A c \in DOMAIN db :
          (/\ last' = "reorder_noop"
           /\ move_card(c, db[c].list_id, <<db[c].position>>)) => db' = db]_vars

\* C8: whatever the interleaving of two move_card requests, the table they
\* leave is the table one of the two serial orders leaves.
C8_Serializable ==
    (\A p \in Procs : sess[p].pc = "done") => db \in SerialOutcomes

\* C16: a same-list reorder of a list of N cards to a position >= N puts the
\* card at N-1, one to a negative position puts it at 0, and the positions
\* of the list stay 0..N-1.
C16_ReorderClamped ==
    [][last' = "reorder" =>
          \A c \in DOMAIN db, p \in PosArgs :
             LET l == db[c].list_id
                 N == CountIn(db, l)
             IN  ((p >= N \/ p < 0) /\ move_card(c, l, <<p>>)) =>
                    /\ db'[c].position = IF p < 0 THEN 0 ELSE N - 1
                    /\ Dense(db', l)]_vars

\* C17: a same-list reorder from position cur to a position t of the list
\* shifts the cards at [t, cur) by +1 when t < cur and the cards at (cur, t]
\* by -1 when t > cur, puts the card at t, and changes no other position
\* and no list of any card.
C17_ReorderFrame ==
    [][last' = "reorder" =>
          \A c \in DOMAIN db :
             LET l == db[c].list_id
                 cur == db[c].position
             IN  \A t \in 0..(CountIn(db, l) - 1) :
                    move_card(c, l, <<t>>) =>
                       /\ DOMAIN db' = DOMAIN db
                       /\ db'[c] = Row(l, t)
                       /\ \A s \in DOMAIN db \ {c} :
                            /\ db'[s].list_id = db[s].list_id
                            /\ db'[s].position = db[s].position
                                 + (IF /\ db[s].list_id = l /\ t < cur
                                       /\ db[s].position >= t
                                       /\ db[s].position < cur
                                    THEN 1 ELSE 0)
                                 - (IF /\ db[s].list_id = l /\ t > cur
                                       /\ db[s].position > cur
                                       /\ db[s].position <= t
                                    THEN 1 ELSE 0)]_vars

\* a reorder within a list of three cards, next to another list, has run
\* and stayed within the list
W17_ReorderFrame ==
    /\ last = "reorder"
    /\ DenseAll(db)
    /\ CountIn(db, "M") = 3
    /\ CountIn(db, "L") >= 1

\* C18: a cross-list move inserts at the destination's size before the
\* insertion when the requested position is None or greater than that size,
\* at 0 when it is negative, and at the requested position otherwise.
C18_MoveClamped ==
    [][last' = "move" =>
          \A c \in DOMAIN db, l \in ListIds, p \in OptPosArgs :
             (l # db[c].list_id /\ move_card(c, l, p)) =>
                LET dest_count == CountIn(db, l)
                IN  db'[c].position =
                       IF p = None THEN dest_count
                       ELSE IF p[1] > dest_count THEN dest_count
                       ELSE IF p[1] < 0 THEN 0
                       ELSE p[1]]_vars

\* C19: deleting a card moves the cards of its list that were after it down
\* by one and leaves every other card where it was.
C19_DeleteCompacts ==
    [][last' = "delete_card" =>
          \A c \in DOMAIN db :
             delete_card(c) =>
                /\ DOMAIN db' = DOMAIN db \ {c}
                /\ \A s \in DOMAIN db \ {c} :
                     /\ db'[s].list_id = db[s].list_id
                     /\ db'[s].position = db[s].position
                          - (IF /\ db[s].list_id = db[c].list_id
                                /\ db[s].position > db[c].position
                             THEN 1 ELSE 0)]_vars

\* C20: create_card gives the new card the number of cards its list had
\* before as position, and changes no other card.
C20_CreateAppends ==
    [][last' = "create_card" =>
          \A l \in ListIds :
             create_card(l) =>
                /\ DOMAIN db' = DOMAIN db \cup {next_id}
                /\ db'[next_id] = Row(l, CountIn(db, l))
                /\ \A s \in DOMAIN db : db'[s] = db[s]]_vars

\* the card created last is the third of its list, another list has cards
W20_CreateAppends ==
    /\ last = "create_card"
    /\ next_id - 1 \in DOMAIN db
    /\ db[next_id - 1] = Row("M", 2)
    /\ CountIn(db, "L") >= 1

\* C21: CardService.create_card gives a new card the next free position of
\* its column: 0 in a column with no active card, N in a column whose active
\* cards are at 0..N-1.
C21_NextPosition ==
    [][last' = "svc_create_card" =>
          \A col \in ColumnIds :
             svc_create_card(col) =>
                LET rows == ActiveIn(db, col)
                    N == Cardinality(rows)
                IN  {db[c].position : c \in rows} = 0..(N - 1)
                       => db'[next_id].position = N]_vars

\* C22: after any sequence of create_list, update_list and delete_list on
\* one board the positions of its lists are exactly 0..N-1.
C22_ListsDense ==
    /\ {db[l].position : l \in DOMAIN db} = 0..(Cardinality(DOMAIN db) - 1)
    /\ \A l1, l2 \in DOMAIN db : db[l1].position = db[l2].position => l1 = l2

\* C23: two same-list reorders on cards of different lists leave, however
\* their statements interleave, the table that either serial order leaves.
C23_ListsIndependent ==
    ((\A p \in Procs : sess[p].pc = "done")
        /\ sess[1].card.list_id # sess[2].card.list_id)
    => /\ db = Alone(Alone(db0, 1), 2)
       /\ db = Alone(Alone(db0, 2), 1)

\* both reorders are committed, each shifted rows of its own list, and the
\* first ran its UPDATE while the rows the second had updated were not
\* committed
W23_ListsIndependent ==
    /\ \A p \in Procs : sess[p].pc = "done"
    /\ sess[1].card.list_id # sess[2].card.list_id
    /\ sess[1].seen = "commit"
    /\ \A p \in Procs : sess[p].writes # <<>>

C11_RestMoveBroadcast ==
    [][last' \in {"move", "reorder"} =>
          \A l \in ListIds :
             (\E c \in DOMAIN db' : db'[c].list_id = l) =>
                \A m \in active_connections'[BoardOfList(l)] :
                   \E w \in WebSockets :
                      /\ bc'[w].status # "idle"
                      /\ bc'[w].board = BoardOfList(l)
                      /\ m \in bc'[w].snap]_vars

\* ------------------------------------------------ claims on websocket.py
\* C12: no board_id of active_connections maps to an empty set: a room exists
\* from the first connect for its board to the disconnect that takes its
\* last connection.
C12_NoEmptyRoom ==
    \A b \in DOMAIN active_connections : active_connections[b] # {}

\* a disconnect took the last connection of a room, another room is left
W12_NoEmptyRoom ==
    /\ last = "disconnect_last"
    /\ active_connections # <<>>

\* the connection of handler w is registered in the room of its board
Member(w, ac) == h[w].board_id \in DOMAIN ac /\ w \in ac[h[w].board_id]

\* C14: a frame that is no JSON, no valid message, or that declares another
\* board or user makes the handler send one error frame to its sender and
\* nothing else; when that frame is sent the connection is still in its room
\* and the handler is back in receive_text for the next frame.
C14_ErrorKeepsOpen ==
    [][\A w \in WebSockets :
          /\ (h[w].pc = "receive" /\ frames_left' # frames_left) =>
                \A f \in Frames :
                   (/\ Validate(f, h[w].board_id, UserOf(w)) # "valid"
                    /\ ws_receive(w, f))
                   => /\ h'[w].pc \in {"send_error", "send_internal"}
                      /\ bc'[w].status = "idle"
                      /\ Member(w, active_connections')
          /\ (/\ h[w].pc \in {"send_error", "send_internal"}
              /\ alive[w]
              /\ h'[w] # h[w])
             => /\ h'[w].pc = "receive"
                /\ bc'[w].status = "idle"
                /\ Member(w, active_connections')]_vars

\* the error frame of a frame that is no JSON is on its way to its sender,
\* whose connection is up and registered
W14_ErrorKeepsOpen ==
    \E w \in WebSockets :
        /\ h[w].pc = "send_error"
        /\ h[w].error = "Invalid JSON format"
        /\ alive[w]
        /\ Member(w, active_connections)

\* the eight actions of the message format
DocumentedActions ==
    {"create_card", "update_card", "delete_card", "move_card",
     "create_column", "update_column", "delete_column", "cursor_move"}

\* C15: a frame that is a message of its connection's board and user is
\* accepted when its action is one of the eight documented actions, and the
\* board_update broadcast carries that action; with any other action it is
\* rejected with a validation error.
C15_EightActions ==
    [][\A w \in WebSockets :
          (h[w].pc = "receive" /\ frames_left' # frames_left) =>
             \A f \in Frames :
                (/\ f.json = "object" /\ f.fields
                 /\ f.board_id = h[w].board_id /\ f.user_id = UserOf(w)
                 /\ ws_receive(w, f))
                => IF f.action \in DocumentedActions
                   THEN /\ bc'[w].type = "board_update"
                        /\ bc'[w].action = f.action
                   ELSE /\ h'[w].pc = "send_error"
                        /\ h'[w].error = "Validation error"]_vars

\* the awaits of a handler on its own websocket
OwnAwaits == {"send_established", "receive", "send_error", "send_ack",
              "send_internal"}

\* websocket w is in no room and has no entry in connection_board_map
Deregistered(w, ac, cbm) ==
    /\ w \notin DOMAIN cbm
    /\ \A b \in DOMAIN ac : w \notin ac[b]

\* the connections call b has called send_json for
Attempted(b) == b.sent \cup b.dead \cup (IF b.target = "" THEN {} ELSE {b.target})

\* C24: the step in which the handler of a connection sees its receive or
\* send fail deregisters the connection, so that no broadcast that runs
\* afterwards can be given it; and a broadcast calls send_json only for
\* connections that are registered.
C24_SyncDeregister ==
    [][\A w \in WebSockets :
          /\ (~alive[w] /\ h[w].pc \in OwnAwaits /\ h'[w] # h[w])
                => Deregistered(w, active_connections', connection_board_map')
          /\ \A t \in Attempted(bc'[w]) \ Attempted(bc[w]) :
                t \in DOMAIN connection_board_map']_vars

\* C25: a websocket that was registered and has been removed from its room,
\* by its handler's cleanup or by an eviction, is in no room and has no
\* entry in connection_board_map in any later state.
C25_ClosedTerminal ==
    [][\A w \in WebSockets :
          (/\ h[w].pc # "new"
           /\ Deregistered(w, active_connections, connection_board_map))
          => Deregistered(w, active_connections', connection_board_map')]_vars

\* one websocket was evicted while its handler is still running, the handler
\* of another one ran its cleanup
W25_ClosedTerminal ==
    \E w, v \in WebSockets :
        /\ h[w].pc \notin {"new", "crashed"}
        /\ Deregistered(w, active_connections, connection_board_map)
        /\ h[v].pc = "crashed"
        /\ Deregistered(v, active_connections, connection_board_map)

\* C26: after a frame that passes validation and the identity checks the
\* next frame the handler sends to its own websocket is the ack, sent when
\* the fan-out has completed, and no error frame; one ack is sent, after
\* which the handler is back in receive_text.
C26_OneAck ==
    [][\A w \in WebSockets :
          /\ (/\ h[w].pc \in {"receive", "broadcast"}
              /\ bc'[w].type = "board_update"
              /\ h'[w] # h[w]
              /\ h'[w].pc # "broadcast")
             => /\ h'[w].pc = "send_ack"
                /\ bc'[w].status = "returned"
          /\ (h[w].pc = "send_ack" /\ alive[w] /\ h'[w] # h[w])
             => h'[w].pc = "receive"]_vars

\* the room of board b, empty when there is none
RoomOf(ac, b) == IF b \in DOMAIN ac THEN ac[b] ELSE {}

C30_DisconnectIdempotent ==
    [][/\ \A w \in WebSockets :
             mgr_disconnect(w) =>
                /\ w \notin DOMAIN connection_board_map =>
                       /\ active_connections' = active_connections
                       /\ connection_board_map' = connection_board_map
                /\ disconnect(active_connections', connection_board_map', w)
                      = <<active_connections', connection_board_map'>>
       /\ \A b \in Boards :
             (mgr_count(b) /\ b \notin DOMAIN active_connections) =>
                /\ get_connected_users_count(active_connections, b) = 0
                /\ active_connections' = active_connections]_vars

\* a websocket without registration was disconnected while both rooms exist
\* and it is still a member of one of them
W30_DisconnectIdempotent ==
    /\ last = "disconnect_unknown"
    /\ DOMAIN active_connections = Boards
    /\ \E w \in WebSockets \ DOMAIN connection_board_map :
          \E b \in Boards : w \in active_connections[b]

\* C29: when receive_text raises on a failed transport, the handler leaves
\* its loop and ends its cleanup without an exception leaving
\* websocket_endpoint.
C29_ReturnsNormally ==
    [][\A w \in WebSockets :
          ws_receive_fails(w) => h'[w].pc # "crashed"]_vars

Ends(w) ==
    /\ bc[w].status \notin {"returned", "raised"}
    /\ bc'[w].status \in {"returned", "raised"}

\* the members a call tried to send to
Tried(b) == b.sent \cup b.dead

\* C2: when a connection c of a room sends a valid frame, the broadcast sends
\* one board_update to every other connection of the room and none to c, and
\* c gets its ack.
C2_BroadcastExclusion ==
    [][\A w \in WebSockets :
          (Ends(w) /\ bc'[w].type = "board_update") =>
             /\ Tried(bc'[w]) = bc'[w].snap \ {w}
             /\ h'[w].pc = "send_ack"]_vars

\* C3: whatever members F fail during one broadcast, the others still get
\* the frame once, F is out of the room when the call is over, and the count
\* of the room is its size before the call minus |F|.
C3_SelfHealing ==
    [][\A w \in WebSockets :
          Ends(w) =>
             LET b == bc'[w]
             IN  /\ (b.snap \ {b.exclude}) \ b.dead \subseteq b.sent
                 /\ \A f \in b.dead : f \notin DOMAIN connection_board_map'
                 /\ get_connected_users_count(active_connections', b.board)
                      = Cardinality(b.snap) - Cardinality(b.dead)]_vars

\* C4: a frame whose board_id or user_id is not the connection's is answered
\* with an error frame to its sender, and neither a broadcast nor an ack
\* follows from it.
C4_SpoofingRejected ==
    [][\A w \in WebSockets :
          /\ (h[w].pc = "receive" /\ frames_left' # frames_left) =>
               \A f \in Frames :
                  (/\ f.json = "object" /\ f.fields /\ f.action \in ActionType
                   /\ f.board_id # h[w].board_id \/ f.user_id # UserOf(w)
                   /\ ws_receive(w, f))
                  => /\ h'[w].pc = "send_error"
                     /\ h'[w].error \in {"Board ID mismatch", "User ID mismatch"}
                     /\ bc'[w].status = "idle"
          /\ h[w].pc = "send_error" =>
               /\ h'[w].pc \in {"send_error", "receive", "send_internal", "crashed"}
               /\ bc'[w].status = "idle"]_vars

\* the error frame of a frame for another board is on its way to its sender,
\* who shares the room with another connection
W4_SpoofingRejected ==
    \E w \in WebSockets :
        /\ h[w].pc = "send_error"
        /\ h[w].error = "Board ID mismatch"
        /\ w \in DOMAIN connection_board_map
        /\ Cardinality(active_connections[h[w].board_id]) >= 2

\* C9: a broadcast that other tasks join or leave while it is suspended does
\* not raise, tries every connection that was a member when it started
\* (but the excluded one), and evicts those whose send failed.
C9_Snapshot ==
    [][\A w \in WebSockets :
          Ends(w) =>
             /\ bc'[w].status = "returned"
             /\ bc'[w].snap \ {bc'[w].exclude} \subseteq Tried(bc'[w])
             /\ \A f \in bc'[w].dead :
                  f \notin active_connections'[bc'[w].board]]_vars

\* Without a join or a leave during the call, C2, C3 and C9 hold: a call
\* that ends with the room as it found it, or with only its own evictions,
\* returned, tried every member but the excluded one, and evicted the dead.
QuietBroadcast ==
    [][\A w \in WebSockets :
          (/\ Ends(w)
           /\ h[w].board_id \in DOMAIN active_connections
           /\ active_connections[h[w].board_id] = bc'[w].snap) =>
             /\ bc'[w].status = "returned"
             /\ Tried(bc'[w]) = bc'[w].snap \ {w}
             /\ get_connected_users_count(active_connections', bc'[w].board)
                  = Cardinality(bc'[w].snap) - Cardinality(bc'[w].dead)]_vars

\* the connections handler w sent its user_left frame to
UserLeftSent(w) == IF bc[w].type = "user_left" THEN bc[w].sent ELSE {}

\* C10: when the session of a connection is over, every connection still in
\* the room of its board was sent the user_left frame of that connection.
C10_UserLeft ==
    \A w \in WebSockets :
        h[w].pc = "crashed" =>
            \A m \in WebSockets :
                (m \in DOMAIN connection_board_map
                   /\ connection_board_map[m] = h[w].board_id)
                => m \in UserLeftSent(w)

W7_NoopReorder == last = "reorder_noop" /\ Cardinality(DOMAIN db) >= 3

====
